---------------------------- MODULE Spec2Model ----------------------------
(***************************************************************************)
(* MultiActivityTimer (src/src/components/MultiActivityTimer.tsx): the     *)
(* component's state (activities, intervalRefs), the active_activities     *)
(* table, the realtime change feed and the asynchronous handlers.          *)
(*                                                                         *)
(* Time is counted in tick periods (100 ms): the step Tick lets one period *)
(* pass and runs the callback of every live interval.  A handler that      *)
(* awaits a storage request is split at the await: the request is applied  *)
(* by storage in the step that issues it, the code after the await runs in *)
(* a later step (the ...Done actions), and the change-feed event the       *)
(* request causes is handled in a step of its own.                         *)
(*                                                                         *)
(* Also modelled: handleActivityComplete of src/src/pages/Index.tsx, which *)
(* saves what stopActivity hands over, and the single-timer component      *)
(* ActivityTimer (src/src/components/ActivityTimer.tsx).                   *)
(***************************************************************************)
EXTENDS Integers, Sequences, FiniteSets

VARIABLES
    now,            \* Date.now(), in tick periods
    db,             \* table active_activities: id -> row, or NoRow
    nextId,         \* the next id storage hands out (ids are never reused)
    feed,           \* change-feed events not yet handled, oldest first
    pending,        \* handlers suspended at an await, with what they captured
    activities,     \* useState<ActiveActivity[]>
    intervalRefs,   \* useRef<Map<id, interval>>: the ids that have an entry
    leaked,         \* id -> live intervals no longer reachable from intervalRefs
    sink,           \* the snapshots passed to onActivityComplete, in order
    cancelled,      \* history: ids for which cancelActivity was called
    toggles,        \* history: id -> togglePause requests storage accepted
    truePaused,     \* history: id -> tick periods spent with the row paused
    lastRun,        \* history: id -> elapsedTime when last seen running
    phase,          \* the effect of lines 56-222: "new", "mounted" or "torn"
    channel,        \* the change-feed subscription exists
    load,           \* loadActiveActivities: "idle", "sent", "read", "done", "error"
    loaded,         \* the rows the select of loadActiveActivities returned
    syncAge,        \* tick periods since the periodic sync timer was (re)started
    noted,          \* history: the case of interest the last step was, or "none"
    tagRows,        \* table active_activity_tags, in the order of insertion
    tagToggles,     \* history: <<id, tag>> -> toggleActivityTag requests accepted
    completed,      \* table activities: the rows handleActivityComplete inserted
    single,         \* ActivityTimer: its state, and the time it has truly run
    singleSink      \* the snapshots ActivityTimer passed to onActivityComplete

vars == <<now, db, nextId, feed, pending, activities, intervalRefs, leaked,
          sink, cancelled, toggles, truePaused, lastRun, phase, channel, load,
          loaded, syncAge, noted, tagRows, tagToggles, completed, single,
          singleSink>>

(***************************************************************************)
(* Bounds of the model.                                                    *)
(***************************************************************************)
MaxIds == 2

MaxTime == 1

MaxToggles == 2

MaxPending == 1

MaxFeed == 2

MaxLeak == 1

MaxSink == 2

MaxName == 2

SeqMaxTime == 5

SeqMaxToggles == 4

PairMaxTime == 2

PairMaxToggles == 2

LifeMaxTime == 1

LifeMaxToggles == 1

FeedMaxTime == 1

FeedMaxToggles == 1

SyncMaxTime == 51

SyncMaxToggles == 1

MaxTags == 1

MaxEdits == 2

MaxTagToggles == 3

EditMaxTime == 1

TagMaxTime == 3

StopMaxTime == 2

StopMaxToggles == 1

SingleMaxTime == 4

SingleMaxPresses == 3

(***************************************************************************)
(* The interval period of the per-record tick, the unit of time here.      *)
(***************************************************************************)
TickPeriod == 1

(***************************************************************************)
(* The period of the sync timer, 5000 ms, in tick periods.                 *)
(***************************************************************************)
SyncPeriod == 50

(***************************************************************************)
(* The interval period of ActivityTimer, 10 ms: the unit of time where     *)
(* that component is modelled on its own.                                  *)
(***************************************************************************)
SingleTickPeriod == 1

Ids == 1..MaxIds

Skews == {2}

NoRow == [none |-> TRUE]

NoAct == [none |-> TRUE]

(***************************************************************************)
(* paused_time is a nullable column: Null stands for null, and `x || 0`    *)
(* reads it as 0.                                                          *)
(***************************************************************************)
Null == -99

OrZero(v) == IF v = Null THEN 0 ELSE v

NoProject == "none"

Projects == {"p1"}

Tags == 1..MaxTags

(***************************************************************************)
(* Helpers on the local array.                                             *)
(***************************************************************************)
Find(acts, id) ==
    IF \E i \in DOMAIN acts : acts[i].id = id
    THEN acts[CHOOSE i \in DOMAIN acts :
                 acts[i].id = id /\ \A j \in DOMAIN acts : acts[j].id = id => i <= j]
    ELSE NoAct

Has(acts, id) == \E i \in DOMAIN acts : acts[i].id = id

Filter(acts, id) == SelectSeq(acts, LAMBDA a : a.id # id)

RemoveAt(s, k) == [i \in 1..(Len(s) - 1) |-> IF i < k THEN s[i] ELSE s[i + 1]]

(***************************************************************************)
(* A row of active_activities as the component builds a record from it;    *)
(* the tags are filled in by the caller from the tag rows it fetched.      *)
(* NoProject stands for null in a row and for undefined in a record.       *)
(***************************************************************************)
FromRowNeverPaused(id, row) ==
    [id          |-> id,
     startTime   |-> row.start_time,
     elapsedTime |-> row.elapsed_time,
     isRunning   |-> row.is_running,
     isPaused    |-> FALSE,
     pausedTime  |-> OrZero(row.paused_time),
     projectId   |-> row.project_id,
     tagIds      |-> <<>>]

FromRow(id, row) ==
    [id          |-> id,
     startTime   |-> row.start_time,
     elapsedTime |-> row.elapsed_time,
     isRunning   |-> row.is_running,
     isPaused    |-> ~row.is_running,
     pausedTime  |-> OrZero(row.paused_time),
     projectId   |-> row.project_id,
     tagIds      |-> <<>>]

(***************************************************************************)
(* The callback of a tick interval created for `id`, run at time t.        *)
(***************************************************************************)
TickCallbackNoGuard(prev, id, t) ==
    [i \in DOMAIN prev |->
        IF prev[i].id = id
        THEN [prev[i] EXCEPT !.elapsedTime = t - prev[i].startTime - prev[i].pausedTime]
        ELSE prev[i]]

TickCallback(prev, id, t) ==
    [i \in DOMAIN prev |->
        IF prev[i].id = id /\ prev[i].isRunning /\ ~prev[i].isPaused
        THEN [prev[i] EXCEPT !.elapsedTime = t - prev[i].startTime - prev[i].pausedTime]
        ELSE prev[i]]

RECURSIVE RunIntervals(_, _, _)
RunIntervals(prev, ids, t) ==
    IF ids = {} THEN prev
    ELSE LET id == CHOOSE x \in ids : \A y \in ids : x <= y
         IN  RunIntervals(TickCallback(prev, id, t), ids \ {id}, t)

Live == intervalRefs \cup {id \in Ids : leaked[id] > 0}

(***************************************************************************)
(* History, kept with every step of SeqSpec and not kept by the other      *)
(* specifications: lastRun, the elapsedTime each record showed when it was *)
(* last running, and truePaused, the time each row has spent paused (a     *)
(* tick period counts when the row is paused as the period passes).        *)
(* Elsewhere: the step touches neither the tag rows, nor the completed     *)
(* activities, nor the single-timer component.                             *)
(***************************************************************************)
Elsewhere == UNCHANGED <<tagRows, tagToggles, completed, single, singleSink>>

Observe ==
    /\ lastRun' = [id \in Ids |->
          IF Has(activities', id) /\ Find(activities', id).isRunning
          THEN Find(activities', id).elapsedTime
          ELSE lastRun[id]]
    /\ truePaused' = [id \in Ids |->
          IF now' # now /\ db[id] # NoRow /\ ~db[id].is_running
          THEN truePaused[id] + TickPeriod
          ELSE truePaused[id]]
    /\ UNCHANGED <<phase, channel, load, loaded, syncAge, noted>>
    /\ Elsewhere

NoHistory ==
    /\ UNCHANGED <<lastRun, truePaused, phase, channel, load, loaded, syncAge, noted>>
    /\ Elsewhere

(***************************************************************************)
(* intervalRefs.current.set(id, setInterval(...)): an entry already there  *)
(* is overwritten, and its interval keeps running.                         *)
(***************************************************************************)
SetInterval(id) ==
    /\ (id \in intervalRefs) => leaked[id] < MaxLeak
    /\ intervalRefs' = intervalRefs \cup {id}
    /\ leaked' = IF id \in intervalRefs
                 THEN [leaked EXCEPT ![id] = @ + 1]
                 ELSE leaked

(***************************************************************************)
(* const interval = intervalRefs.current.get(id);                          *)
(* if (interval) { clearInterval(interval); intervalRefs.current.delete }  *)
(***************************************************************************)
ClearInterval(id) ==
    /\ intervalRefs' = intervalRefs \ {id}
    /\ UNCHANGED leaked

(***************************************************************************)
(* ActivityTimer (src/src/components/ActivityTimer.tsx) as constructed:    *)
(* its useState and useRef values.  startTime is Null while there is none. *)
(* History: ran, the time spent running and not paused since the start,    *)
(* and presses, the number of times Pause/Resume was pressed since then.   *)
(***************************************************************************)
SingleInit ==
    [activityName   |-> <<>>,
     isRunning      |-> FALSE,
     isPaused       |-> FALSE,
     elapsedTime    |-> 0,
     startTime      |-> Null,
     pausedTimeRef  |-> 0,
     ran            |-> 0,
     presses        |-> 0]

(***************************************************************************)
(* The component mounted, subscribed to the change feed, and its startup   *)
(* load finished with an empty table.                                      *)
(***************************************************************************)
Init ==
    /\ now = 0
    /\ db = [id \in Ids |-> NoRow]
    /\ nextId = 1
    /\ feed = <<>>
    /\ pending = <<>>
    /\ activities = <<>>
    /\ intervalRefs = {}
    /\ leaked = [id \in Ids |-> 0]
    /\ sink = <<>>
    /\ cancelled = {}
    /\ toggles = [id \in Ids |-> 0]
    /\ truePaused = [id \in Ids |-> 0]
    /\ lastRun = [id \in Ids |-> 0]
    /\ phase = "mounted"
    /\ channel = TRUE
    /\ load = "done"
    /\ loaded = [id \in Ids |-> NoRow]
    /\ syncAge = 0
    /\ noted = "none"
    /\ tagRows = <<>>
    /\ tagToggles = [x \in Ids \X Tags |-> 0]
    /\ completed = <<>>
    /\ single = SingleInit
    /\ singleSink = <<>>

(***************************************************************************)
(* One tick period passes; every live interval fires once.                 *)
(***************************************************************************)
Tick(maxT) ==
    /\ now < maxT
    /\ now' = now + TickPeriod
    /\ activities' = RunIntervals(activities, Live, now')
    /\ UNCHANGED <<db, nextId, feed, pending, intervalRefs, leaked, sink,
                   cancelled, toggles>>

(***************************************************************************)
(* The change feed queues an event for the component while its channel is  *)
(* subscribed.                                                             *)
(***************************************************************************)
Publish(ev) ==
    /\ channel => Len(feed) < MaxFeed
    /\ feed' = IF channel THEN Append(feed, ev) ELSE feed

(***************************************************************************)
(* Storage: insert of a new row and the INSERT event it causes.            *)
(***************************************************************************)
InsertRow(startTime) ==
    /\ nextId <= MaxIds
    /\ LET row == [start_time   |-> startTime,
                   elapsed_time |-> 0,
                   is_running   |-> TRUE,
                   paused_time  |-> 0,
                   project_id   |-> NoProject]
       IN  /\ db' = [db EXCEPT ![nextId] = row]
           /\ Publish([type |-> "INSERT", id |-> nextId, row |-> row])
    /\ nextId' = nextId + 1

(***************************************************************************)
(* The text of the name input: a sequence of characters, spaces and        *)
(* letters.  String.trim() removes the white space at both ends.           *)
(***************************************************************************)
Whitespace == {" "}

Chars == Whitespace \cup {"a"}

Names == UNION {[1..n -> Chars] : n \in 0..MaxName}

RECURSIVE TrimStart(_)
TrimStart(s) ==
    IF s # <<>> /\ Head(s) \in Whitespace THEN TrimStart(Tail(s)) ELSE s

RECURSIVE TrimEnd(_)
TrimEnd(s) ==
    IF s # <<>> /\ s[Len(s)] \in Whitespace
    THEN TrimEnd(SubSeq(s, 1, Len(s) - 1))
    ELSE s

TrimNone(s) == s

Trim(s) == TrimEnd(TrimStart(s))

(***************************************************************************)
(* startNewActivity: nothing is done when the trimmed name is empty;       *)
(* otherwise the row is inserted with start_time = new Date(), and the     *)
(* record reaches the local array through the INSERT event.  Nothing of    *)
(* the modelled state changes after the await, on success or on error.     *)
(***************************************************************************)
StartNewActivity(name, err) ==
    /\ IF Trim(name) = <<>> \/ err
       THEN UNCHANGED <<db, feed, nextId>>
       ELSE InsertRow(now)
    /\ UNCHANGED <<now, pending, activities, intervalRefs, leaked, sink,
                   cancelled, toggles>>

(***************************************************************************)
(* Another session of the same user starts an activity; its clock differs  *)
(* from the local one by `skew` tick periods.                              *)
(***************************************************************************)
RemoteStart(skew) ==
    /\ InsertRow(now + skew)
    /\ UNCHANGED <<now, pending, activities, intervalRefs, leaked, sink,
                   cancelled, toggles>>

(***************************************************************************)
(* Another session stops or cancels the activity: the row is deleted.      *)
(***************************************************************************)
RemoteDelete(id) ==
    /\ db[id] # NoRow
    /\ db' = [db EXCEPT ![id] = NoRow]
    /\ Publish([type |-> "DELETE", id |-> id, row |-> NoRow])
    /\ UNCHANGED <<now, nextId, pending, activities, intervalRefs, leaked, sink,
                   cancelled, toggles>>

(***************************************************************************)
(* select tag_id from active_activity_tags where active_activity_id = id.  *)
(***************************************************************************)
RECURSIVE TagsOf(_, _)
TagsOf(rows, id) ==
    IF rows = <<>> THEN <<>>
    ELSE IF Head(rows).active_activity_id = id
         THEN <<Head(rows).tag_id>> \o TagsOf(Tail(rows), id)
         ELSE TagsOf(Tail(rows), id)

(***************************************************************************)
(* Feed handler, INSERT, up to its await: the tags of the new row are      *)
(* fetched; the event's row is captured.                                   *)
(***************************************************************************)
OnInsert ==
    /\ channel
    /\ feed # <<>>
    /\ Head(feed).type = "INSERT"
    /\ Len(pending) < MaxPending
    /\ feed' = Tail(feed)
    /\ pending' = Append(pending,
            [op |-> "onInsert", id |-> Head(feed).id, row |-> Head(feed).row,
             tagsData |-> TagsOf(tagRows, Head(feed).id)])
    /\ UNCHANGED <<now, db, nextId, activities, intervalRefs, leaked, sink,
                   cancelled, toggles>>

(***************************************************************************)
(* Feed handler, INSERT, after its await: the record is appended unless    *)
(* the id is already there, and a running record gets an interval.         *)
(***************************************************************************)
OnInsertDoneNoCheck(k) ==
    /\ k \in DOMAIN pending
    /\ pending[k].op = "onInsert"
    /\ LET newActivity == [FromRow(pending[k].id, pending[k].row)
                              EXCEPT !.tagIds = pending[k].tagsData]
       IN  /\ activities' = Append(activities, newActivity)
           /\ IF newActivity.isRunning /\ ~newActivity.isPaused
              THEN SetInterval(newActivity.id)
              ELSE UNCHANGED <<intervalRefs, leaked>>
    /\ pending' = RemoveAt(pending, k)
    /\ UNCHANGED <<now, db, nextId, feed, sink, cancelled, toggles>>

OnInsertDone(k) ==
    /\ k \in DOMAIN pending
    /\ pending[k].op = "onInsert"
    /\ LET newActivity == [FromRow(pending[k].id, pending[k].row)
                              EXCEPT !.tagIds = pending[k].tagsData]
       IN  IF Has(activities, newActivity.id)
           THEN UNCHANGED <<activities, intervalRefs, leaked>>
           ELSE /\ activities' = Append(activities, newActivity)
                /\ IF newActivity.isRunning /\ ~newActivity.isPaused
                   THEN SetInterval(newActivity.id)
                   ELSE UNCHANGED <<intervalRefs, leaked>>
    /\ pending' = RemoveAt(pending, k)
    /\ UNCHANGED <<now, db, nextId, feed, sink, cancelled, toggles>>

(***************************************************************************)
(* Feed handler, UPDATE: the event's row replaces elapsedTime, isRunning,  *)
(* isPaused, pausedTime and projectId of the matching record, and the      *)
(* interval is started or cleared to match; no matching record, no effect. *)
(***************************************************************************)
OnUpdateRecordAll(act, updatedActivity) ==
    [act EXCEPT !.elapsedTime = updatedActivity.row.elapsed_time,
                !.isRunning   = updatedActivity.row.is_running,
                !.isPaused    = ~updatedActivity.row.is_running,
                !.pausedTime  = OrZero(updatedActivity.row.paused_time),
                !.projectId   = updatedActivity.row.project_id]

OnUpdateRecord(act, updatedActivity) ==
    IF act.id = updatedActivity.id
    THEN [act EXCEPT !.elapsedTime = updatedActivity.row.elapsed_time,
                     !.isRunning   = updatedActivity.row.is_running,
                     !.isPaused    = ~updatedActivity.row.is_running,
                     !.pausedTime  = OrZero(updatedActivity.row.paused_time),
                     !.projectId   = updatedActivity.row.project_id]
    ELSE act

OnUpdateUpsert ==
    /\ channel
    /\ feed # <<>>
    /\ Head(feed).type = "UPDATE"
    /\ LET updatedActivity == Head(feed)
       IN  /\ activities' =
                 IF Has(activities, updatedActivity.id)
                 THEN [i \in DOMAIN activities |->
                          OnUpdateRecord(activities[i], updatedActivity)]
                 ELSE Append(activities,
                             FromRow(updatedActivity.id, updatedActivity.row))
           /\ IF updatedActivity.row.is_running
              THEN IF updatedActivity.id \notin intervalRefs
                   THEN SetInterval(updatedActivity.id)
                   ELSE UNCHANGED <<intervalRefs, leaked>>
              ELSE ClearInterval(updatedActivity.id)
    /\ feed' = Tail(feed)
    /\ UNCHANGED <<now, db, nextId, pending, sink, cancelled, toggles>>

OnUpdate ==
    /\ channel
    /\ feed # <<>>
    /\ Head(feed).type = "UPDATE"
    /\ LET updatedActivity == Head(feed)
       IN  /\ activities' = [i \in DOMAIN activities |->
                                OnUpdateRecord(activities[i], updatedActivity)]
           /\ IF Has(activities, updatedActivity.id)
              THEN IF updatedActivity.row.is_running
                   THEN IF updatedActivity.id \notin intervalRefs
                        THEN SetInterval(updatedActivity.id)
                        ELSE UNCHANGED <<intervalRefs, leaked>>
                   ELSE ClearInterval(updatedActivity.id)
              ELSE UNCHANGED <<intervalRefs, leaked>>
    /\ feed' = Tail(feed)
    /\ UNCHANGED <<now, db, nextId, pending, sink, cancelled, toggles>>

(***************************************************************************)
(* Feed handler, DELETE: the interval is cleared and the record removed;   *)
(* onActivityComplete is not called.                                       *)
(***************************************************************************)
OnDeleteClearAll ==
    /\ channel
    /\ feed # <<>>
    /\ Head(feed).type = "DELETE"
    /\ intervalRefs' = {}
    /\ UNCHANGED leaked
    /\ activities' = Filter(activities, Head(feed).id)
    /\ feed' = Tail(feed)
    /\ UNCHANGED <<now, db, nextId, pending, sink, cancelled, toggles>>

OnDelete ==
    /\ channel
    /\ feed # <<>>
    /\ Head(feed).type = "DELETE"
    /\ ClearInterval(Head(feed).id)
    /\ activities' = Filter(activities, Head(feed).id)
    /\ feed' = Tail(feed)
    /\ UNCHANGED <<now, db, nextId, pending, sink, cancelled, toggles>>

(***************************************************************************)
(* Storage: update of the row `id`.  No row with that id: nothing is       *)
(* written, no event is sent, and the request still succeeds.              *)
(***************************************************************************)
UpdateRow(id, isRunning, pausedTime, elapsedTime) ==
    IF db[id] = NoRow
    THEN UNCHANGED <<db, feed>>
    ELSE LET row == [db[id] EXCEPT !.is_running   = isRunning,
                                   !.paused_time  = pausedTime,
                                   !.elapsed_time = elapsedTime]
         IN  /\ db' = [db EXCEPT ![id] = row]
             /\ Publish([type |-> "UPDATE", id |-> id, row |-> row])

(***************************************************************************)
(* Storage: delete of the row `id`; as for update when there is no row.    *)
(***************************************************************************)
DeleteRow(id) ==
    IF db[id] = NoRow
    THEN UNCHANGED <<db, feed>>
    ELSE /\ db' = [db EXCEPT ![id] = NoRow]
         /\ Publish([type |-> "DELETE", id |-> id, row |-> NoRow])

(***************************************************************************)
(* togglePause computes the accumulated pause it writes: unchanged when    *)
(* pausing, and on resume increased by now - startTime - elapsedTime.      *)
(***************************************************************************)
NewPausedTimeNoElapsed(activity, newIsPaused, t) ==
    IF newIsPaused
    THEN activity.pausedTime
    ELSE activity.pausedTime + (t - activity.startTime)

NewPausedTime(activity, newIsPaused, t) ==
    IF newIsPaused
    THEN activity.pausedTime
    ELSE activity.pausedTime + (t - activity.startTime - activity.elapsedTime)

(***************************************************************************)
(* togglePause(id) up to its await.  The record is looked up in the local  *)
(* array; the local array itself is not changed by togglePause.  When the  *)
(* request fails the code after the await only reports the error, which    *)
(* changes nothing here: the failing call is this one step.                *)
(***************************************************************************)
TogglePause(id, err) ==
    /\ Has(activities, id)
    /\ Len(pending) < MaxPending
    /\ LET activity    == Find(activities, id)
           newIsPaused == ~activity.isPaused
           newPausedTime == NewPausedTime(activity, newIsPaused, now)
       IN  /\ IF err
              THEN UNCHANGED <<db, feed, toggles>>
              ELSE /\ UpdateRow(id, ~newIsPaused, newPausedTime, activity.elapsedTime)
                   /\ toggles' = [toggles EXCEPT ![id] = @ + 1]
           /\ pending' = IF err THEN pending
                         ELSE Append(pending,
                                [op |-> "togglePause", id |-> id,
                                 newIsPaused |-> newIsPaused])
    /\ UNCHANGED <<now, nextId, activities, intervalRefs, leaked, sink,
                   cancelled>>

(***************************************************************************)
(* togglePause(id) after its await, the request having succeeded: the      *)
(* interval is cleared (pause) or a new one is created and stored (resume).*)
(***************************************************************************)
TogglePauseDone(k) ==
    /\ k \in DOMAIN pending
    /\ pending[k].op = "togglePause"
    /\ IF pending[k].newIsPaused
       THEN ClearInterval(pending[k].id)
       ELSE SetInterval(pending[k].id)
    /\ pending' = RemoveAt(pending, k)
    /\ UNCHANGED <<now, db, nextId, feed, activities, sink, cancelled, toggles>>

(***************************************************************************)
(* stopActivity(id) up to its await: the interval is cleared, endTime is   *)
(* computed from the record, and the row's delete is requested.  When the  *)
(* request fails the code after the await only reports the error: the      *)
(* failing call is this one step.  issuedAt, shown and paused are history: *)
(* when stopActivity was called, and the elapsedTime and isPaused the      *)
(* record had then.                                                        *)
(***************************************************************************)
StopActivity(id, err) ==
    /\ Has(activities, id)
    /\ Len(pending) < MaxPending
    /\ LET activity == Find(activities, id)
           endTime  == activity.startTime + activity.elapsedTime
       IN  pending' = IF err THEN pending
                      ELSE Append(pending,
                             [op |-> "stopActivity", id |-> id,
                              activity |-> activity, endTime |-> endTime,
                              issuedAt |-> now, shown |-> activity.elapsedTime,
                              paused |-> activity.isPaused])
    /\ ClearInterval(id)
    /\ IF err THEN UNCHANGED <<db, feed>> ELSE DeleteRow(id)
    /\ UNCHANGED <<now, nextId, activities, sink, cancelled, toggles>>

(***************************************************************************)
(* The snapshot stopActivity passes to onActivityComplete.                 *)
(***************************************************************************)
SnapshotWallClock(p, t) ==
    [id        |-> p.id,
     duration  |-> t - p.activity.startTime,
     startTime |-> p.activity.startTime,
     endTime   |-> t,
     projectId |-> p.activity.projectId,
     tagIds    |-> p.activity.tagIds]

Snapshot(p, t) ==
    [id        |-> p.id,
     duration  |-> p.activity.elapsedTime,
     startTime |-> p.activity.startTime,
     endTime   |-> p.endTime,
     projectId |-> p.activity.projectId,
     tagIds    |-> p.activity.tagIds]

(***************************************************************************)
(* stopActivity(id) after its await, the delete having succeeded:          *)
(* onActivityComplete is called with the snapshot.                         *)
(***************************************************************************)
StopActivityDone(k) ==
    /\ k \in DOMAIN pending
    /\ pending[k].op = "stopActivity"
    /\ Len(sink) < MaxSink
    /\ sink' = Append(sink,
           [snapshot |-> Snapshot(pending[k], now),
            issuedAt |-> pending[k].issuedAt,
            shown    |-> pending[k].shown,
            paused   |-> pending[k].paused])
    /\ pending' = RemoveAt(pending, k)
    /\ UNCHANGED <<now, db, nextId, feed, activities, intervalRefs, leaked,
                   cancelled, toggles>>

(***************************************************************************)
(* handleActivityComplete (src/src/pages/Index.tsx), the function passed   *)
(* as onActivityComplete: the completed activity is inserted into the      *)
(* table activities; when the insert fails the error is reported and       *)
(* nothing else is done.  Then its tags are inserted into activity_tags,   *)
(* a failure of which is only logged: the row is then without tags.  The   *)
(* field `of` is history: the id the active row had.  The page is shown    *)
(* to a signed-in user only, so `user` is set.                             *)
(***************************************************************************)
HandleActivityComplete(activity, error, tagsError) ==
    completed' =
        IF error THEN completed
        ELSE Append(completed,
                [of         |-> activity.id,
                 project_id |-> activity.projectId,
                 duration   |-> activity.duration,
                 date       |-> activity.startTime,
                 tag_ids    |-> IF tagsError THEN <<>> ELSE activity.tagIds])

(***************************************************************************)
(* cancelActivity(id): the interval is cleared and the row's delete is     *)
(* requested; after the await only the error is reported.  The button is   *)
(* rendered per record, so id is one of the local array.                   *)
(***************************************************************************)
CancelActivity(id, err) ==
    /\ Has(activities, id)
    /\ ClearInterval(id)
    /\ IF err THEN UNCHANGED <<db, feed>> ELSE DeleteRow(id)
    /\ cancelled' = cancelled \cup {id}
    /\ UNCHANGED <<now, nextId, pending, activities, sink, toggles>>

(***************************************************************************)
(* Storage: update of project_id of the row `id`, as UpdateRow.            *)
(***************************************************************************)
UpdateProjectRow(id, projectId) ==
    IF db[id] = NoRow
    THEN UNCHANGED <<db, feed>>
    ELSE LET row == [db[id] EXCEPT !.project_id = projectId]
         IN  /\ db' = [db EXCEPT ![id] = row]
             /\ Publish([type |-> "UPDATE", id |-> id, row |-> row])

(***************************************************************************)
(* updateActivityProject(id, projectId) up to its await: the update of     *)
(* project_id is requested (undefined is written as null).  The local      *)
(* array is not looked at.  A failing request is reported and nothing      *)
(* else is done.                                                           *)
(***************************************************************************)
UpdateActivityProject(id, projectId, err) ==
    /\ Len(pending) < MaxEdits
    /\ IF err
       THEN UNCHANGED <<db, feed, pending>>
       ELSE /\ UpdateProjectRow(id, projectId)
            /\ pending' = Append(pending,
                   [op |-> "updateActivityProject", id |-> id,
                    projectId |-> projectId])
    /\ UNCHANGED <<now, nextId, activities, intervalRefs, leaked, sink,
                   cancelled, toggles>>

(***************************************************************************)
(* updateActivityProject after its await:                                  *)
(* prev.map(act => act.id === id ? { ...act, projectId } : act).           *)
(***************************************************************************)
SetProjectAll(act, id, projectId) ==
    [act EXCEPT !.projectId = projectId]

SetProject(act, id, projectId) ==
    IF act.id = id THEN [act EXCEPT !.projectId = projectId] ELSE act

UpdateActivityProjectDone(k) ==
    /\ k \in DOMAIN pending
    /\ pending[k].op = "updateActivityProject"
    /\ activities' = [i \in DOMAIN activities |->
                         SetProject(activities[i], pending[k].id, pending[k].projectId)]
    /\ pending' = RemoveAt(pending, k)
    /\ UNCHANGED <<now, db, nextId, feed, intervalRefs, leaked, sink, cancelled,
                   toggles>>

(***************************************************************************)
(* toggleActivityTag(id, tagId) up to its await.  The tag is added when    *)
(* the local record does not list it, and removed otherwise.  Storage      *)
(* rejects the insert of a pair that is there (UNIQUE) or whose row of     *)
(* active_activities is not (REFERENCES); a delete that matches no row     *)
(* succeeds.  The table is not in the change feed.  A failing request is   *)
(* reported and nothing else is done.                                      *)
(***************************************************************************)
Includes(s, x) == \E i \in DOMAIN s : s[i] = x

TagPair(id, tagId) == [active_activity_id |-> id, tag_id |-> tagId]

ToggleActivityTag(id, tagId, err) ==
    /\ Has(activities, id)
    /\ Len(pending) < MaxEdits
    /\ LET activity == Find(activities, id)
           isAdding == ~Includes(activity.tagIds, tagId)
           rejected == /\ isAdding
                       /\ (Includes(tagRows, TagPair(id, tagId)) \/ db[id] = NoRow)
       IN  IF err \/ rejected
           THEN UNCHANGED <<tagRows, tagToggles, pending>>
           ELSE /\ tagRows' = IF isAdding
                              THEN Append(tagRows, TagPair(id, tagId))
                              ELSE SelectSeq(tagRows,
                                             LAMBDA r : r # TagPair(id, tagId))
                /\ tagToggles' = [tagToggles EXCEPT ![<<id, tagId>>] = @ + 1]
                /\ pending' = Append(pending,
                       [op |-> "toggleActivityTag", id |-> id, tagId |-> tagId,
                        isAdding |-> isAdding])
    /\ UNCHANGED <<now, db, nextId, feed, activities, intervalRefs, leaked, sink,
                   cancelled, toggles>>

(***************************************************************************)
(* toggleActivityTag after its await: the tag is appended to, or filtered  *)
(* out of, the tagIds the record has by then.                              *)
(***************************************************************************)
ToggleTag(act, id, tagId, isAdding) ==
    IF act.id = id
    THEN [act EXCEPT !.tagIds = IF isAdding
                                THEN Append(act.tagIds, tagId)
                                ELSE SelectSeq(act.tagIds, LAMBDA t : t # tagId)]
    ELSE act

ToggleActivityTagDone(k) ==
    /\ k \in DOMAIN pending
    /\ pending[k].op = "toggleActivityTag"
    /\ activities' = [i \in DOMAIN activities |->
                         ToggleTag(activities[i], pending[k].id, pending[k].tagId,
                                   pending[k].isAdding)]
    /\ pending' = RemoveAt(pending, k)
    /\ UNCHANGED <<now, db, nextId, feed, intervalRefs, leaked, sink, cancelled,
                   toggles>>

(***************************************************************************)
(* The effect of lines 56-222 runs: loadActiveActivities is called (its    *)
(* select is sent) and the channel is subscribed.  The effect of lines     *)
(* 225-240 starts the periodic sync timer.                                 *)
(***************************************************************************)
Mount ==
    /\ phase = "new"
    /\ phase' = "mounted"
    /\ channel' = TRUE
    /\ load' = "sent"
    /\ UNCHANGED <<now, db, nextId, feed, pending, activities, intervalRefs,
                   leaked, sink, cancelled, toggles, loaded>>

(***************************************************************************)
(* Storage answers the select of loadActiveActivities with the rows of the *)
(* table, each with its tag rows, or with an error; on an error the code   *)
(* after the await only reports it.                                        *)
(***************************************************************************)
WithTags(row, tags) ==
    IF row = NoRow THEN NoRow
    ELSE [start_time           |-> row.start_time,
          elapsed_time         |-> row.elapsed_time,
          is_running           |-> row.is_running,
          paused_time          |-> row.paused_time,
          project_id           |-> row.project_id,
          active_activity_tags |-> tags]

LoadSelect(err) ==
    /\ load = "sent"
    /\ load' = IF err THEN "error" ELSE "read"
    /\ loaded' = IF err THEN loaded
                 ELSE [id \in Ids |-> WithTags(db[id], TagsOf(tagRows, id))]
    /\ UNCHANGED <<now, db, nextId, feed, pending, activities, intervalRefs,
                   leaked, sink, cancelled, toggles, phase, channel>>

(***************************************************************************)
(* The records loadActiveActivities builds from the rows, in the order of  *)
(* created_at, which is the order of the ids.                              *)
(***************************************************************************)
RECURSIVE LoadedActivities(_, _)
LoadedActivities(rows, n) ==
    IF n = 0 THEN <<>>
    ELSE IF rows[n] = NoRow
         THEN LoadedActivities(rows, n - 1)
         ELSE Append(LoadedActivities(rows, n - 1),
                     [FromRow(n, rows[n])
                         EXCEPT !.tagIds = rows[n].active_activity_tags])

(***************************************************************************)
(* loadActiveActivities after its await: the local array is replaced by    *)
(* the loaded records, and every running one gets a new interval, stored   *)
(* in intervalRefs over whatever entry its id had.                         *)
(***************************************************************************)
LoadDone ==
    /\ load = "read"
    /\ LET loadedActivities == LoadedActivities(loaded, MaxIds)
           started == {loadedActivities[i].id : i \in
                          {j \in DOMAIN loadedActivities :
                              /\ loadedActivities[j].isRunning
                              /\ ~loadedActivities[j].isPaused}}
       IN  /\ \A id \in started \cap intervalRefs : leaked[id] < MaxLeak
           /\ activities' = loadedActivities
           /\ intervalRefs' = intervalRefs \cup started
           /\ leaked' = [id \in Ids |->
                            IF id \in started \cap intervalRefs
                            THEN leaked[id] + 1
                            ELSE leaked[id]]
    /\ load' = "done"
    /\ UNCHANGED <<now, db, nextId, feed, pending, sink, cancelled, toggles,
                   phase, channel, loaded>>

(***************************************************************************)
(* The cleanup of the effect: every interval stored in intervalRefs is     *)
(* cleared and the channel is removed; events are no longer delivered.     *)
(* The entries stay in the map with their cleared intervals; intervalRefs  *)
(* here holds the ids whose entry is a live interval.                      *)
(***************************************************************************)
Teardown ==
    /\ phase = "mounted"
    /\ phase' = "torn"
    /\ intervalRefs' = {}
    /\ channel' = FALSE
    /\ feed' = <<>>
    /\ UNCHANGED <<now, db, nextId, pending, activities, leaked, sink,
                   cancelled, toggles, load, loaded>>

(***************************************************************************)
(* Another session calls togglePause on its copy of the record, which is   *)
(* the row as stored.                                                      *)
(***************************************************************************)
RemoteToggle(id) ==
    /\ db[id] # NoRow
    /\ LET activity    == FromRow(id, db[id])
           newIsPaused == ~activity.isPaused
       IN  UpdateRow(id, ~newIsPaused, NewPausedTime(activity, newIsPaused, now),
                     activity.elapsedTime)
    /\ toggles' = [toggles EXCEPT ![id] = @ + 1]
    /\ UNCHANGED <<now, nextId, pending, activities, intervalRefs, leaked, sink,
                   cancelled>>

(***************************************************************************)
(* The change feed delivers at least once: the oldest event not yet        *)
(* handled is delivered a second time.                                     *)
(***************************************************************************)
Redeliver ==
    /\ channel
    /\ feed # <<>>
    /\ Len(feed) < MaxFeed
    /\ feed' = <<Head(feed)>> \o feed
    /\ UNCHANGED <<now, db, nextId, pending, activities, intervalRefs, leaked,
                   sink, cancelled, toggles>>

(***************************************************************************)
(* The periodic sync (lines 225-240): the timer set by the effect fires    *)
(* SyncPeriod after it was last (re)started and writes the elapsedTime of  *)
(* every running record of the array the effect closed over, which is the  *)
(* current one, the effect being re-run whenever `activities` changes.     *)
(***************************************************************************)
RunningActivities(acts) == SelectSeq(acts, LAMBDA a : a.isRunning /\ ~a.isPaused)

RECURSIVE SyncRows(_, _)
SyncRows(rows, acts) ==
    IF acts = <<>> THEN rows
    ELSE LET a == Head(acts)
         IN  SyncRows(IF rows[a.id] = NoRow
                      THEN rows
                      ELSE [rows EXCEPT ![a.id].elapsed_time = a.elapsedTime],
                      Tail(acts))

RECURSIVE SyncEvents(_, _)
SyncEvents(rows, acts) ==
    IF acts = <<>> THEN <<>>
    ELSE LET a == Head(acts)
         IN  IF rows[a.id] = NoRow
             THEN SyncEvents(rows, Tail(acts))
             ELSE <<[type |-> "UPDATE", id |-> a.id,
                     row |-> [rows[a.id] EXCEPT !.elapsed_time = a.elapsedTime]]>>
                  \o SyncEvents(rows, Tail(acts))

PeriodicSync ==
    /\ phase = "mounted"
    /\ syncAge >= SyncPeriod
    /\ LET runningActivities == RunningActivities(activities)
           events == SyncEvents(db, runningActivities)
       IN  /\ channel => Len(feed) + Len(events) <= MaxFeed
           /\ db' = SyncRows(db, runningActivities)
           /\ feed' = IF channel THEN feed \o events ELSE feed
    /\ syncAge' = 0
    /\ UNCHANGED <<now, nextId, pending, activities, intervalRefs, leaked, sink,
                   cancelled, toggles, phase, channel, load, loaded>>

(***************************************************************************)
(* The component with one record, under every interleaving of commands,   *)
(* ticks, responses, failures and feed events, and with a second session   *)
(* that may start the record or delete its row.                            *)
(***************************************************************************)
Next ==
    \/ Tick(MaxTime) /\ NoHistory
    \/ \E name \in Names, err \in BOOLEAN :
          nextId = 1 /\ StartNewActivity(name, err) /\ NoHistory
    \/ \E skew \in Skews : nextId = 1 /\ RemoteStart(skew) /\ NoHistory
    \/ \E id \in Ids : RemoteDelete(id) /\ NoHistory
    \/ OnInsert /\ NoHistory
    \/ \E k \in 1..MaxPending : OnInsertDone(k) /\ NoHistory
    \/ OnUpdate /\ NoHistory
    \/ OnDelete /\ NoHistory
    \/ \E id \in Ids, err \in BOOLEAN :
          toggles[id] < MaxToggles /\ TogglePause(id, err) /\ NoHistory
    \/ \E k \in 1..MaxPending : TogglePauseDone(k) /\ NoHistory
    \/ \E id \in Ids, err \in BOOLEAN : StopActivity(id, err) /\ NoHistory
    \/ \E k \in 1..MaxPending : StopActivityDone(k) /\ NoHistory
    \/ \E id \in Ids, err \in BOOLEAN : CancelActivity(id, err) /\ NoHistory

Spec == Init /\ [][Next]_vars

(***************************************************************************)
(* One session, one record, a fast network: a command is issued, and a     *)
(* tick period passes, only when no response and no feed event is          *)
(* outstanding, and no storage request fails.                              *)
(***************************************************************************)
Quiet == feed = <<>> /\ pending = <<>>

SeqNext ==
    \/ Quiet /\ Tick(SeqMaxTime) /\ Observe
    \/ \E name \in Names :
          Quiet /\ nextId = 1 /\ StartNewActivity(name, FALSE) /\ Observe
    \/ OnInsert /\ Observe
    \/ \E k \in 1..MaxPending : OnInsertDone(k) /\ Observe
    \/ OnUpdate /\ Observe
    \/ OnDelete /\ Observe
    \/ Quiet /\ toggles[1] < SeqMaxToggles /\ TogglePause(1, FALSE) /\ Observe
    \/ \E k \in 1..MaxPending : TogglePauseDone(k) /\ Observe
    \/ Quiet /\ StopActivity(1, FALSE) /\ Observe
    \/ \E k \in 1..MaxPending : StopActivityDone(k) /\ Observe

SeqSpec == Init /\ [][SeqNext]_vars

(***************************************************************************)
(* Several records side by side, under the same fast network: each record  *)
(* is started, paused, resumed, stopped or cancelled on its own.           *)
(***************************************************************************)
RECURSIVE SumTo(_, _)
SumTo(f, n) == IF n = 0 THEN 0 ELSE f[n] + SumTo(f, n - 1)

TotalToggles == SumTo(toggles, MaxIds)

PairNext ==
    \/ Quiet /\ Tick(PairMaxTime) /\ NoHistory
    \/ \E name \in Names : Quiet /\ StartNewActivity(name, FALSE) /\ NoHistory
    \/ OnInsert /\ NoHistory
    \/ \E k \in 1..MaxPending : OnInsertDone(k) /\ NoHistory
    \/ OnUpdate /\ NoHistory
    \/ OnDelete /\ NoHistory
    \/ \E id \in Ids :
          Quiet /\ TotalToggles < PairMaxToggles /\ TogglePause(id, FALSE) /\ NoHistory
    \/ \E k \in 1..MaxPending : TogglePauseDone(k) /\ NoHistory
    \/ \E id \in Ids : Quiet /\ StopActivity(id, FALSE) /\ NoHistory
    \/ \E k \in 1..MaxPending : StopActivityDone(k) /\ NoHistory
    \/ \E id \in Ids : Quiet /\ CancelActivity(id, FALSE) /\ NoHistory

PairSpec == Init /\ [][PairNext]_vars

(***************************************************************************)
(* The component from its construction to its teardown, with a table that  *)
(* may hold a row of an earlier session and a second session that starts,  *)
(* pauses, resumes and deletes records.  Commands need the rendered timer  *)
(* cards: the component is mounted and loading is false.  `noted` records  *)
(* which of the cases of interest the step was.                            *)
(***************************************************************************)
OldRows ==
    {NoRow} \cup
    {[start_time |-> -2, elapsed_time |-> 1, is_running |-> r, paused_time |-> p,
      project_id |-> NoProject] :
        r \in BOOLEAN, p \in {Null, 1}}

LifeInit ==
    /\ now = 0
    /\ \E row \in OldRows :
          /\ db = [id \in Ids |-> IF id = 1 THEN row ELSE NoRow]
          /\ nextId = IF row = NoRow THEN 1 ELSE 2
    /\ feed = <<>>
    /\ pending = <<>>
    /\ activities = <<>>
    /\ intervalRefs = {}
    /\ leaked = [id \in Ids |-> 0]
    /\ sink = <<>>
    /\ cancelled = {}
    /\ toggles = [id \in Ids |-> 0]
    /\ truePaused = [id \in Ids |-> 0]
    /\ lastRun = [id \in Ids |-> 0]
    /\ phase = "new"
    /\ channel = FALSE
    /\ load = "idle"
    /\ loaded = [id \in Ids |-> NoRow]
    /\ syncAge = 0
    /\ noted = "none"
    /\ tagRows = <<>>
    /\ tagToggles = [x \in Ids \X Tags |-> 0]
    /\ completed = <<>>
    /\ single = SingleInit
    /\ singleSink = <<>>

Interactive == phase = "mounted" /\ load \in {"done", "error"}

Blank(name) == \A i \in DOMAIN name : name[i] \in Whitespace

NoteLife(case) ==
    /\ noted' = case
    /\ UNCHANGED <<lastRun, truePaused, syncAge>>
    /\ Elsewhere

NoteStep(case) ==
    /\ noted' = case
    /\ UNCHANGED <<lastRun, truePaused, syncAge, phase, channel, load, loaded>>
    /\ Elsewhere

LifeNext ==
    \/ Mount /\ NoteLife("none")
    \/ \E err \in BOOLEAN : LoadSelect(err) /\ NoteLife("none")
    \/ LoadDone /\ NoteLife("loadDone")
    \/ Teardown /\ NoteLife("none")
    \/ Tick(LifeMaxTime) /\ NoteStep("none")
    \/ \E name \in Names :
          /\ Interactive
          /\ nextId = 1
          /\ StartNewActivity(name, FALSE)
          /\ NoteStep(IF Blank(name) THEN "blankStart" ELSE "none")
    \/ nextId = 1 /\ RemoteStart(0) /\ NoteStep("none")
    \/ \E id \in Ids :
          toggles[id] < LifeMaxToggles /\ RemoteToggle(id) /\ NoteStep("none")
    \/ \E id \in Ids : RemoteDelete(id) /\ NoteStep("none")
    \/ Redeliver /\ NoteStep("none")
    \/ OnInsert /\ NoteStep("none")
    \/ \E k \in 1..MaxPending :
          /\ OnInsertDone(k)
          /\ NoteStep(IF Has(activities, pending[k].id)
                      THEN "insertPresent" ELSE "none")
    \/ OnUpdate /\ NoteStep("none")
    \/ OnDelete /\ NoteStep("none")
    \/ \E id \in Ids :
          /\ Interactive
          /\ toggles[id] < LifeMaxToggles
          /\ TogglePause(id, FALSE)
          /\ NoteStep("none")
    \/ \E k \in 1..MaxPending : TogglePauseDone(k) /\ NoteStep("none")

LifeSpec == LifeInit /\ [][LifeNext]_vars

(***************************************************************************)
(* The feed handlers with two records: a second session starts, pauses,    *)
(* resumes and deletes records, the change feed may deliver an event       *)
(* twice, and the handlers run in every order the awaits allow.            *)
(***************************************************************************)
FeedNext ==
    \/ Tick(FeedMaxTime) /\ NoteStep("none")
    \/ nextId \in {1, 2} /\ RemoteStart(0) /\ NoteStep("none")
    \/ \E id \in Ids :
          TotalToggles < FeedMaxToggles /\ RemoteToggle(id) /\ NoteStep("none")
    \/ \E id \in Ids : RemoteDelete(id) /\ NoteStep("none")
    \/ Redeliver /\ NoteStep("none")
    \/ OnInsert /\ NoteStep("none")
    \/ \E k \in 1..MaxPending :
          /\ OnInsertDone(k)
          /\ NoteStep(IF Has(activities, pending[k].id)
                      THEN "insertPresent" ELSE "none")
    \/ OnUpdate
          /\ NoteStep(IF Has(activities, Head(feed).id) THEN "none" ELSE "updateAbsent")
    \/ OnDelete
          /\ NoteStep(IF Has(activities, Head(feed).id) THEN "none" ELSE "deleteAbsent")

FeedSpec == Init /\ [][FeedNext]_vars

(***************************************************************************)
(* One record under the fast network, with the periodic sync timer.  Every *)
(* setActivities call that yields a new array re-runs the effect of lines  *)
(* 225-240, which clears the timer and starts it again: a tick with a live *)
(* interval (prev.map), the UPDATE handler (prev.map) and the INSERT       *)
(* handler when it appends.  No row is deleted here; a stopActivity whose  *)
(* delete fails is included: it leaves a running record without interval.  *)
(***************************************************************************)
SyncKeep ==
    /\ UNCHANGED <<syncAge, lastRun, truePaused, noted, phase, channel, load, loaded>>
    /\ Elsewhere

SyncRestart ==
    /\ syncAge' = 0
    /\ UNCHANGED <<lastRun, truePaused, noted, phase, channel, load, loaded>>
    /\ Elsewhere

SyncTick ==
    /\ syncAge' = IF Live # {} THEN 0 ELSE syncAge + TickPeriod
    /\ UNCHANGED <<lastRun, truePaused, noted, phase, channel, load, loaded>>
    /\ Elsewhere

SyncNext ==
    \/ Quiet /\ syncAge < SyncPeriod /\ Tick(SyncMaxTime) /\ SyncTick
    \/ \E name \in Names :
          Quiet /\ nextId = 1 /\ StartNewActivity(name, FALSE) /\ SyncKeep
    \/ OnInsert /\ SyncKeep
    \/ \E k \in 1..MaxPending :
          /\ OnInsertDone(k)
          /\ IF Has(activities, pending[k].id) THEN SyncKeep ELSE SyncRestart
    \/ OnUpdate /\ SyncRestart
    \/ Quiet /\ toggles[1] < SyncMaxToggles /\ TogglePause(1, FALSE) /\ SyncKeep
    \/ \E k \in 1..MaxPending : TogglePauseDone(k) /\ SyncKeep
    \/ Quiet /\ StopActivity(1, TRUE) /\ SyncKeep
    \/ Quiet /\ PeriodicSync /\ UNCHANGED <<lastRun, truePaused, noted>> /\ Elsewhere

SyncSpec == Init /\ [][SyncNext]_vars

(***************************************************************************)
(* Two records whose project is edited, under the fast network: a command  *)
(* is issued, and a tick period passes, when no response and no event is   *)
(* outstanding, while the response and the UPDATE event of a request are   *)
(* handled in either order.  One record is paused at most, and each tag is *)
(* added to a record at most once.                                         *)
(* No row is deleted here.                                                 *)
(***************************************************************************)
ProjectChoices == Projects \cup {NoProject}

NoteEdit(case) ==
    /\ noted' = case
    /\ UNCHANGED <<lastRun, truePaused, syncAge, phase, channel, load, loaded,
                   completed, single, singleSink>>

EditNext ==
    \/ Quiet /\ Tick(EditMaxTime) /\ NoteStep("none")
    \/ \E name \in Names :
          /\ Quiet
          /\ nextId \in {1, 2}
          /\ StartNewActivity(name, FALSE)
          /\ NoteStep("none")
    \/ OnInsert /\ NoteStep("none")
    \/ \E k \in 1..MaxPending : OnInsertDone(k) /\ NoteStep("none")
    \/ OnUpdate /\ NoteStep("none")
    \/ \E id \in Ids :
          /\ Quiet
          /\ TotalToggles = 0
          /\ TogglePause(id, FALSE)
          /\ NoteStep("none")
    \/ \E k \in 1..MaxPending : TogglePauseDone(k) /\ NoteStep("none")
    \/ \E id \in Ids, projectId \in ProjectChoices, err \in BOOLEAN :
          Quiet /\ UpdateActivityProject(id, projectId, err) /\ NoteStep("none")
    \/ \E k \in 1..MaxEdits :
          /\ UpdateActivityProjectDone(k)
          /\ NoteStep(IF Has(activities, pending[k].id)
                      THEN "projectSet" ELSE "projectAbsent")
    \/ \E id \in Ids, tagId \in Tags :
          /\ Quiet
          /\ tagToggles[<<id, tagId>>] = 0
          /\ ToggleActivityTag(id, tagId, FALSE)
          /\ NoteEdit("none")
    \/ \E k \in 1..MaxEdits : ToggleActivityTagDone(k) /\ NoteStep("none")

EditSpec == Init /\ [][EditNext]_vars

(***************************************************************************)
(* One record whose tags are toggled at any time, with up to MaxEdits      *)
(* requests in flight, some of them failing.                               *)
(***************************************************************************)
TagNext ==
    \/ Tick(TagMaxTime) /\ NoteStep("none")
    \/ \E name \in Names :
          nextId = 1 /\ StartNewActivity(name, FALSE) /\ NoteStep("none")
    \/ OnInsert /\ NoteStep("none")
    \/ \E k \in 1..MaxPending : OnInsertDone(k) /\ NoteStep("none")
    \/ \E id \in Ids, tagId \in Tags, err \in BOOLEAN :
          /\ tagToggles[<<id, tagId>>] < MaxTagToggles
          /\ ToggleActivityTag(id, tagId, err)
          /\ NoteEdit("none")
    \/ \E k \in 1..MaxEdits : ToggleActivityTagDone(k) /\ NoteStep("none")

TagSpec == Init /\ [][TagNext]_vars

(***************************************************************************)
(* One record started, paused or resumed, and stopped, with the completed  *)
(* activity saved by handleActivityComplete in the step in which           *)
(* stopActivity hands it over; both requests may fail.  Only stopActivity  *)
(* deletes the row here, and it is not called again once a snapshot was    *)
(* handed over.                                                            *)
(***************************************************************************)
NoteSave(case) ==
    /\ noted' = case
    /\ UNCHANGED <<lastRun, truePaused, syncAge, phase, channel, load, loaded,
                   tagRows, tagToggles, single, singleSink>>

StopNext ==
    \/ Tick(StopMaxTime) /\ NoteStep("none")
    \/ \E name \in Names :
          nextId = 1 /\ StartNewActivity(name, FALSE) /\ NoteStep("none")
    \/ OnInsert /\ NoteStep("none")
    \/ \E k \in 1..MaxPending : OnInsertDone(k) /\ NoteStep("none")
    \/ OnUpdate /\ NoteStep("none")
    \/ OnDelete /\ NoteStep("none")
    \/ \E id \in Ids :
          /\ toggles[id] < StopMaxToggles
          /\ TogglePause(id, FALSE)
          /\ NoteStep("none")
    \/ \E k \in 1..MaxPending : TogglePauseDone(k) /\ NoteStep("none")
    \/ \E id \in Ids, err \in BOOLEAN :
          sink = <<>> /\ StopActivity(id, err) /\ NoteStep("none")
    \/ \E k \in 1..MaxPending, error \in BOOLEAN, tagsError \in BOOLEAN :
          /\ StopActivityDone(k)
          /\ HandleActivityComplete(sink'[Len(sink')].snapshot, error, tagsError)
          /\ NoteSave(IF error THEN "saveFailed" ELSE "saved")

StopSpec == Init /\ [][StopNext]_vars

(***************************************************************************)
(* ActivityTimer, the single-timer component.  Its interval is live        *)
(* exactly while isRunning and not isPaused (the effect of lines 42-54     *)
(* re-runs when either changes); SingleTick lets one period pass and runs  *)
(* the callback if the interval is live.  The timer is followed up to its  *)
(* first stop and into the run after it.  Nothing of MultiActivityTimer    *)
(* takes part.                                                             *)
(***************************************************************************)
SingleFrame ==
    UNCHANGED <<db, nextId, feed, pending, activities, intervalRefs, leaked, sink,
                cancelled, toggles, truePaused, lastRun, phase, channel, load,
                loaded, syncAge, noted, tagRows, tagToggles, completed>>

SingleTick ==
    /\ now < SingleMaxTime
    /\ now' = now + SingleTickPeriod
    /\ single' =
          IF single.isRunning /\ ~single.isPaused
          THEN [single EXCEPT
                  !.elapsedTime = now' - OrZero(single.startTime)
                                       - single.pausedTimeRef,
                  !.ran = @ + SingleTickPeriod]
          ELSE single
    /\ UNCHANGED singleSink

(***************************************************************************)
(* The name input, disabled while the timer is running.                    *)
(***************************************************************************)
SetActivityName(name) ==
    /\ ~single.isRunning
    /\ single' = [single EXCEPT !.activityName = name]
    /\ UNCHANGED <<now, singleSink>>

(***************************************************************************)
(* handleStart, from the Start button or the Enter key, both there only    *)
(* while the timer is not running.                                         *)
(***************************************************************************)
HandleStart ==
    /\ ~single.isRunning
    /\ single' =
          IF Trim(single.activityName) = <<>>
          THEN single
          ELSE [single EXCEPT !.startTime = now,
                              !.pausedTimeRef = 0,
                              !.isRunning = TRUE,
                              !.isPaused = FALSE,
                              !.ran = 0,
                              !.presses = 0]
    /\ UNCHANGED <<now, singleSink>>

(***************************************************************************)
(* handlePause, from the Pause/Resume button, rendered while running.      *)
(***************************************************************************)
HandlePause ==
    /\ single.isRunning
    /\ single' =
          IF single.isRunning /\ ~single.isPaused
          THEN [single EXCEPT
                  !.isPaused = TRUE,
                  !.pausedTimeRef = @ + (now - OrZero(single.startTime)
                                             - single.elapsedTime),
                  !.presses = @ + 1]
          ELSE IF single.isPaused
               THEN [single EXCEPT !.isPaused = FALSE, !.presses = @ + 1]
               ELSE single
    /\ UNCHANGED <<now, singleSink>>

(***************************************************************************)
(* handleStop, from the Stop button, rendered while running: the snapshot  *)
(* is passed to onActivityComplete and the state is reset.  The field ran  *)
(* of the entry is history.                                                *)
(***************************************************************************)
HandleStop ==
    /\ single.isRunning
    /\ IF single.isRunning /\ single.startTime # Null
       THEN /\ singleSink' = Append(singleSink,
                   [name      |-> single.activityName,
                    duration  |-> single.elapsedTime,
                    startTime |-> single.startTime,
                    endTime   |-> now,
                    ran       |-> single.ran])
            /\ single' = SingleInit
       ELSE UNCHANGED <<single, singleSink>>
    /\ UNCHANGED now

SingleNext ==
    \/ SingleTick /\ SingleFrame
    \/ \E name \in Names : SetActivityName(name) /\ SingleFrame
    \/ HandleStart /\ SingleFrame
    \/ single.presses < SingleMaxPresses /\ HandlePause /\ SingleFrame
    \/ singleSink = <<>> /\ HandleStop /\ SingleFrame

SingleSpec == Init /\ [][SingleNext]_vars

(***************************************************************************)
(* Records of the local array and entries of the sink, by id.              *)
(***************************************************************************)
Running(id) == Has(activities, id) /\ Find(activities, id).isRunning

Paused(id) ==
    /\ Has(activities, id)
    /\ ~Find(activities, id).isRunning
    /\ Find(activities, id).isPaused

Completions(id) == {i \in DOMAIN sink : sink[i].snapshot.id = id}

(***************************************************************************)
(* C1. With every echo delivered, the accumulated pause of a running       *)
(* record is the time it has spent paused: each pause is counted once, so  *)
(* that a tick computes now - startTime - (total time paused).             *)
(***************************************************************************)
C1_PausedTimeIsTotalPause ==
    \A id \in Ids :
        (Quiet /\ Running(id)) =>
            Find(activities, id).pausedTime = truePaused[id]

(***************************************************************************)
(* C2. Every record of the active set has elapsedTime >= 0.                *)
(***************************************************************************)
C2_ElapsedNonNegative ==
    \A i \in DOMAIN activities : activities[i].elapsedTime >= 0

(***************************************************************************)
(* C3. The elapsedTime of a record never decreases from one state in which *)
(* the record is running to the next such state, pauses in between         *)
(* included.                                                               *)
(***************************************************************************)
C3_ElapsedMonotoneWhileRunning ==
    [][\A id \in Ids :
          (Has(activities', id) /\ Find(activities', id).isRunning) =>
              Find(activities', id).elapsedTime >= lastRun[id]]_vars

(***************************************************************************)
(* C4. A tick step leaves every paused record as it is, elapsedTime        *)
(* included, also when an interval of that record is still live.           *)
(***************************************************************************)
C4_PausedFrozenUnderTick ==
    [][now' # now =>
          \A i \in DOMAIN activities :
              (~activities[i].isRunning /\ activities[i].isPaused) =>
                  (i \in DOMAIN activities' /\ activities'[i] = activities[i])]_vars

(***************************************************************************)
(* C4, witness: a paused record that still has a live interval and shows   *)
(* less than a tick would compute.                                         *)
(***************************************************************************)
C4_Witness ==
    \E id \in Ids :
        /\ Paused(id)
        /\ id \in Live
        /\ Find(activities, id).elapsedTime
              < now - Find(activities, id).startTime - Find(activities, id).pausedTime

C6_SnapshotFromElapsed ==
    \A i \in DOMAIN sink :
        /\ sink[i].snapshot.duration = sink[i].shown
        /\ sink[i].snapshot.endTime
              = sink[i].snapshot.startTime + sink[i].snapshot.duration

(***************************************************************************)
(* C6, witness: a paused record stopped later than startTime + duration    *)
(* and completed.                                                          *)
(***************************************************************************)
C6_Witness ==
    \E i \in DOMAIN sink :
        /\ sink[i].snapshot.id \notin cancelled
        /\ sink[i].paused
        /\ sink[i].issuedAt > sink[i].snapshot.endTime

(***************************************************************************)
(* C7. Once cancelActivity(id) was called, onActivityComplete is not       *)
(* invoked for that id in any later step.                                  *)
(***************************************************************************)
C7_NoCompletionAfterCancel ==
    [][\A id \in cancelled :
          {i \in DOMAIN sink' : sink'[i].snapshot.id = id} = Completions(id)]_vars

(***************************************************************************)
(* C8. onActivityComplete is invoked at most once for every id.            *)
(***************************************************************************)
C8_AtMostOneCompletion ==
    \A id \in Ids : Cardinality(Completions(id)) <= 1

(***************************************************************************)
(* A step of PairSpec that is about the record `id`: a feed handler on an  *)
(* event of that id, the continuation of a handler called for it, or a     *)
(* command for it.                                                         *)
(***************************************************************************)
StepOn(id) ==
    \/ /\ feed # <<>>
       /\ Head(feed).id = id
       /\ OnInsert \/ OnUpdate \/ OnDelete
    \/ \E k \in DOMAIN pending :
          /\ pending[k].id = id
          /\ OnInsertDone(k) \/ TogglePauseDone(k) \/ StopActivityDone(k)
    \/ /\ Quiet
       /\ TogglePause(id, FALSE) \/ StopActivity(id, FALSE) \/ CancelActivity(id, FALSE)

(***************************************************************************)
(* The record `id`, its row and its tick schedule are as before the step.  *)
(***************************************************************************)
Untouched(id) ==
    /\ Find(activities', id) = Find(activities, id)
    /\ (id \in intervalRefs') = (id \in intervalRefs)
    /\ leaked'[id] = leaked[id]
    /\ db'[id] = db[id]

(***************************************************************************)
(* C9. Timers are independent: a tick gives every running record that has  *)
(* a live interval elapsedTime = now - its startTime - its pausedTime, and *)
(* a step about one id leaves the record, the row and the tick schedule of *)
(* every other id unchanged (whatever a step changes of one id, it is not  *)
(* a step about another id).                                               *)
(***************************************************************************)
C9_TimersIndependent ==
    [][/\ now' # now =>
            \A id \in Ids :
                (Running(id) /\ id \in Live) =>
                    /\ Has(activities', id)
                    /\ Find(activities', id).elapsedTime
                          = now' - Find(activities, id).startTime
                                 - Find(activities, id).pausedTime
       /\ \A other \in Ids :
            Untouched(other) \/ \A id \in Ids \ {other} : ~StepOn(id)]_vars

(***************************************************************************)
(* C9, witness: two records started one period apart, both running and     *)
(* ticked, each showing the time since its own start.                      *)
(***************************************************************************)
C9_Witness ==
    /\ Running(1) /\ Running(2)
    /\ Find(activities, 2).startTime = Find(activities, 1).startTime + 1
    /\ Find(activities, 1).elapsedTime = now - Find(activities, 1).startTime
    /\ Find(activities, 2).elapsedTime = now - Find(activities, 2).startTime
    /\ Find(activities, 2).elapsedTime = 1
    /\ toggles[1] > 0

(***************************************************************************)
(* C10. Pause and resume are idempotent: a pause issued for a record whose *)
(* row is already paused, or a resume for one whose row is already         *)
(* running (the echo of the first command not yet applied), leaves the row *)
(* as the first command left it.                                           *)
(***************************************************************************)
C10_PauseResumeIdempotent ==
    [][\A id \in Ids :
          (/\ Has(activities, id)
           /\ db[id] # NoRow
           /\ db[id].is_running = Find(activities, id).isPaused
           /\ toggles'[id] > toggles[id]) => db'[id] = db[id]]_vars

(***************************************************************************)
(* C11. An UPDATE event for an id that is not in the local array is        *)
(* handled without effect: the array, the tick schedules and the sink stay *)
(* as they are.                                                            *)
(***************************************************************************)
C11_UpdateAbsentIgnored ==
    [][(OnUpdate /\ ~Has(activities, Head(feed).id)) =>
          UNCHANGED <<activities, intervalRefs, leaked, sink>>]_vars

(***************************************************************************)
(* C11, witness: such an event was just handled while another record was   *)
(* ticking.                                                                *)
(***************************************************************************)
C11_Witness ==
    /\ noted = "updateAbsent"
    /\ \E id \in Ids : Running(id) /\ id \in intervalRefs

(***************************************************************************)
(* C12. A DELETE event for an id that is not in the local array leaves the *)
(* array, the tick schedule of every other id and the sink as they are.    *)
(***************************************************************************)
C12_DeleteAbsentIgnored ==
    [][(OnDelete /\ ~Has(activities, Head(feed).id)) =>
          /\ UNCHANGED <<activities, sink, leaked>>
          /\ \A id \in Ids \ {Head(feed).id} :
                (id \in intervalRefs') = (id \in intervalRefs)]_vars

(***************************************************************************)
(* C12, witness: such an event was just handled while another record was   *)
(* ticking.                                                                *)
(***************************************************************************)
C12_Witness ==
    /\ noted = "deleteAbsent"
    /\ \E id \in Ids : Running(id) /\ id \in intervalRefs

(***************************************************************************)
(* C13. startNewActivity with a name of white space only, or empty, does   *)
(* nothing: no row is inserted, no event is caused, the array and the tick *)
(* schedules stay as they are.                                             *)
(***************************************************************************)
C13_BlankNameRejected ==
    [][\A name \in Names :
          (Blank(name) /\ StartNewActivity(name, FALSE)) =>
              UNCHANGED <<db, nextId, feed, pending, activities, intervalRefs,
                          leaked>>]_vars

(***************************************************************************)
(* C13, witness: a blank name was just submitted, to a component showing   *)
(* the input with no record started.                                       *)
(***************************************************************************)
C13_Witness ==
    /\ noted = "blankStart"
    /\ Interactive
    /\ nextId = 1

(***************************************************************************)
(* C14. The local array never holds two records of one id, and an INSERT   *)
(* event whose id is already there leaves the array and the tick schedules *)
(* as they are.                                                            *)
(***************************************************************************)
C14_OneRecordPerId ==
    [][/\ \A i, j \in DOMAIN activities' :
             activities'[i].id = activities'[j].id => i = j
       /\ \A k \in DOMAIN pending :
             (Has(activities, pending[k].id) /\ OnInsertDone(k)) =>
                 UNCHANGED <<activities, intervalRefs, leaked>>]_vars

(***************************************************************************)
(* C14, witness: an INSERT event for a record that is there and ticking    *)
(* was just handled.                                                       *)
(***************************************************************************)
C14_Witness ==
    /\ noted = "insertPresent"
    /\ \E id \in Ids : Running(id) /\ id \in intervalRefs /\ leaked[id] = 0

(***************************************************************************)
(* C15. Every record of the local array is either running or paused:       *)
(* isPaused = NOT isRunning.                                               *)
(***************************************************************************)
C15_RunningXorPaused ==
    \A i \in DOMAIN activities :
        activities[i].isPaused = ~activities[i].isRunning

(***************************************************************************)
(* C15, witness: a record built by the startup load and since paused by an *)
(* UPDATE event.                                                           *)
(***************************************************************************)
C15_Witness ==
    /\ load = "done"
    /\ \E id \in Ids : Paused(id) /\ toggles[id] > 0 /\ loaded[id] # NoRow

(***************************************************************************)
(* C16. The accumulated pause of a record, as stored and as held locally,  *)
(* changes only in a step that takes the record from running to paused,    *)
(* and then it grows.                                                      *)
(***************************************************************************)
C16_PausedTimeOnlyAtPause ==
    [][\A id \in Ids :
          /\ (/\ db[id] # NoRow
              /\ db'[id] # NoRow
              /\ db'[id].paused_time # db[id].paused_time) =>
                 /\ db[id].is_running
                 /\ ~db'[id].is_running
                 /\ db'[id].paused_time > db[id].paused_time
          /\ (/\ Has(activities, id)
              /\ Has(activities', id)
              /\ Find(activities', id).pausedTime # Find(activities, id).pausedTime) =>
                 /\ Find(activities, id).isRunning
                 /\ ~Find(activities', id).isRunning
                 /\ Find(activities', id).pausedTime > Find(activities, id).pausedTime]_vars

(***************************************************************************)
(* C17. While a record is running and ticking, its stored elapsed_time     *)
(* lags the elapsedTime shown by at most one sync period: the periodic     *)
(* sync fires in every period, ticks or not.                               *)
(***************************************************************************)
C17_SyncLagBounded ==
    \A id \in Ids :
        (Running(id) /\ id \in Live /\ db[id] # NoRow) =>
            Find(activities, id).elapsedTime - db[id].elapsed_time <= SyncPeriod

(***************************************************************************)
(* C18. A command whose storage request fails leaves the local state as it *)
(* was: the array, the tick schedules and the sink.                        *)
(***************************************************************************)
C18_FailureLeavesStateUnchanged ==
    [][\A id \in Ids :
          (\/ StopActivity(id, TRUE)
           \/ CancelActivity(id, TRUE)
           \/ TogglePause(id, TRUE)) =>
              UNCHANGED <<activities, intervalRefs, leaked, sink>>]_vars

(***************************************************************************)
(* C19. After the teardown no tick schedule is live and the channel is     *)
(* removed, whatever continuation resumes afterwards.                      *)
(***************************************************************************)
C19_TeardownReleasesAll ==
    phase = "torn" => (Live = {} /\ ~channel)

(***************************************************************************)
(* C20. When the startup load completes, the local array holds one record  *)
(* per row returned, with the row's is_running, start_time and paused_time *)
(* (0 for null), and of these records exactly the running ones have a live *)
(* tick schedule.                                                          *)
(***************************************************************************)
C20_LoadRestoresRows ==
    [][(load = "read" /\ load' = "done") =>
          /\ Len(activities') = Cardinality({id \in Ids : loaded[id] # NoRow})
          /\ \A id \in Ids :
                loaded[id] # NoRow =>
                    /\ Has(activities', id)
                    /\ Find(activities', id).isRunning = loaded[id].is_running
                    /\ Find(activities', id).startTime = loaded[id].start_time
                    /\ Find(activities', id).pausedTime
                          = (IF loaded[id].paused_time = Null
                             THEN 0 ELSE loaded[id].paused_time)
                    /\ (id \in intervalRefs' \/ leaked'[id] > 0)
                          = Find(activities', id).isRunning]_vars

(***************************************************************************)
(* C21. Once the DELETE event of an id has been handled (the row is gone   *)
(* and no DELETE event for the id is waiting), the id is not in the local  *)
(* array and has no live tick interval, also when the INSERT handler of    *)
(* the id was suspended at its tags query when the DELETE was handled; and *)
(* the DELETE handler does not call onActivityComplete.                    *)
(***************************************************************************)
C21_DeletedStaysGone ==
    [][/\ OnDelete => sink' = sink
       /\ \A id \in Ids :
             (/\ id < nextId'
              /\ db'[id] = NoRow
              /\ \A i \in DOMAIN feed' :
                    ~(feed'[i].type = "DELETE" /\ feed'[i].id = id)) =>
                 /\ ~Has(activities', id)
                 /\ id \notin intervalRefs'
                 /\ leaked'[id] = 0]_vars

(***************************************************************************)
(* C22. The UPDATE handler, for an id of the local array, leaves the       *)
(* record with the event's elapsed_time, is_running, paused_time and       *)
(* project_id and with a live interval exactly when is_running is true;    *)
(* and with every response and event handled, every record shown as        *)
(* running has a live interval.                                            *)
(***************************************************************************)
C22_UpdateAppliedAndTicking ==
    [][/\ (OnUpdate /\ Has(activities, Head(feed).id)) =>
             LET ev  == Head(feed)
                 act == Find(activities', ev.id)
             IN  /\ act.elapsedTime = ev.row.elapsed_time
                 /\ act.isRunning = ev.row.is_running
                 /\ act.pausedTime = OrZero(ev.row.paused_time)
                 /\ act.projectId = ev.row.project_id
                 /\ (ev.id \in intervalRefs' \/ leaked'[ev.id] > 0) = ev.row.is_running
       /\ \A id \in Ids :
             (/\ feed' = <<>>
              /\ pending' = <<>>
              /\ Has(activities', id)
              /\ Find(activities', id).isRunning) =>
                 (id \in intervalRefs' \/ leaked'[id] > 0)]_vars

(***************************************************************************)
(* C23. A running record on which togglePause was called twice, pause and  *)
(* then resume, is running in the local array and in storage once every    *)
(* response and echo has arrived, whenever the second call was made.       *)
(***************************************************************************)
C23_PauseThenResumeRuns ==
    \A id \in Ids :
        (toggles[id] = 2 /\ Quiet /\ Has(activities, id) /\ db[id] # NoRow) =>
            (Running(id) /\ db[id].is_running)

(***************************************************************************)
(* C24. A command changes the local array in the step that issues it:      *)
(* togglePause flips the record's running flag, stopActivity and           *)
(* cancelActivity remove the record.                                       *)
(***************************************************************************)
C24_LocalUpdateAtIssue ==
    [][\A id \in Ids :
          /\ TogglePause(id, FALSE) =>
                (/\ Has(activities', id)
                 /\ Find(activities', id).isRunning = ~Find(activities, id).isRunning)
          /\ (StopActivity(id, FALSE) \/ CancelActivity(id, FALSE)) =>
                ~Has(activities', id)]_vars

(***************************************************************************)
(* C25. tagIds is a set under toggleActivityTag: no record lists a tag     *)
(* twice, and with no toggle of a tag in flight the record lists the tag,  *)
(* and active_activity_tags holds the pair, exactly when the tag has been  *)
(* toggled an odd number of times (every record starts without tags): a    *)
(* toggle adds an absent tag and removes a present one, and two toggles    *)
(* restore what there was, whenever the second was issued.                 *)
(***************************************************************************)
C25_TagIdsIsSet ==
    /\ \A i \in DOMAIN activities :
          \A a, b \in DOMAIN activities[i].tagIds :
              activities[i].tagIds[a] = activities[i].tagIds[b] => a = b
    /\ \A id \in Ids, tagId \in Tags :
          (/\ Has(activities, id)
           /\ \A k \in DOMAIN pending :
                 ~(/\ pending[k].op = "toggleActivityTag"
                   /\ pending[k].id = id
                   /\ pending[k].tagId = tagId)) =>
              /\ Includes(Find(activities, id).tagIds, tagId)
                    = (tagToggles[<<id, tagId>>] % 2 = 1)
              /\ Includes(tagRows, TagPair(id, tagId))
                    = (tagToggles[<<id, tagId>>] % 2 = 1)

(***************************************************************************)
(* C26. updateActivityProject writes only project_id of the row and        *)
(* changes nothing locally before its request is answered, and then only   *)
(* the projectId of the record with the id: the other fields of that       *)
(* record, the other records, the intervals, the tag rows are as they      *)
(* were; with no record of that id the array is as it was.                 *)
(***************************************************************************)
C26_ProjectOnly ==
    [][/\ \A id \in Ids, projectId \in ProjectChoices, err \in BOOLEAN :
             UpdateActivityProject(id, projectId, err) =>
                 /\ UNCHANGED <<activities, intervalRefs, leaked, tagRows>>
                 /\ \A other \in Ids \ {id} : db'[other] = db[other]
                 /\ IF db[id] = NoRow \/ err
                    THEN db'[id] = db[id]
                    ELSE db'[id] = [db[id] EXCEPT !.project_id = projectId]
       /\ \A k \in DOMAIN pending :
             UpdateActivityProjectDone(k) =>
                 /\ UNCHANGED <<intervalRefs, leaked, tagRows, db, sink>>
                 /\ DOMAIN activities' = DOMAIN activities
                 /\ \A i \in DOMAIN activities :
                       IF activities[i].id = pending[k].id
                       THEN /\ activities'[i].projectId = pending[k].projectId
                            /\ activities'[i].id = activities[i].id
                            /\ activities'[i].startTime = activities[i].startTime
                            /\ activities'[i].elapsedTime = activities[i].elapsedTime
                            /\ activities'[i].pausedTime = activities[i].pausedTime
                            /\ activities'[i].isRunning = activities[i].isRunning
                            /\ activities'[i].isPaused = activities[i].isPaused
                            /\ activities'[i].tagIds = activities[i].tagIds
                       ELSE activities'[i] = activities[i]
                 /\ ~Has(activities, pending[k].id) => activities' = activities]_vars

(***************************************************************************)
(* C26, witness: the project of one of two records was just set, the       *)
(* other record having another project; one record is paused, one is       *)
(* ticking, one has a tag.                                                 *)
(***************************************************************************)
C26_Witness ==
    /\ noted = "projectSet"
    /\ \E i, j \in DOMAIN activities :
          /\ activities[i].projectId \in Projects
          /\ activities[j].projectId = NoProject
    /\ \E id \in Ids : Paused(id)
    /\ \E id \in Ids : Running(id) /\ id \in intervalRefs
    /\ \E i \in DOMAIN activities : activities[i].tagIds # <<>>

(***************************************************************************)
(* C27. No id has a live interval besides the one stored in intervalRefs.  *)
(***************************************************************************)
C27_OneIntervalPerId ==
    \A id \in Ids : leaked[id] = 0

(***************************************************************************)
(* C28. No tracked time is lost on stop: when the row of an activity is    *)
(* gone and no stopActivity of it is waiting for its response, the table   *)
(* of completed activities holds a row of it.                              *)
(***************************************************************************)
C28_NoTimeLost ==
    \A id \in Ids :
        (/\ id < nextId
         /\ db[id] = NoRow
         /\ \A k \in DOMAIN pending :
               ~(pending[k].op = "stopActivity" /\ pending[k].id = id)) =>
            \E i \in DOMAIN completed : completed[i].of = id

(***************************************************************************)
(* C29. With the startup load completed and every event and response      *)
(* handled, the local array holds exactly the ids of the rows of the       *)
(* table, each with the row's is_running.                                  *)
(***************************************************************************)
C29_ConvergesToStorage ==
    (phase = "mounted" /\ load = "done" /\ Quiet) =>
        \A id \in Ids :
            /\ Has(activities, id) = (db[id] # NoRow)
            /\ Has(activities, id) =>
                  Find(activities, id).isRunning = db[id].is_running

(***************************************************************************)
(* C30. The snapshot handleStop passes on has as duration the time the     *)
(* timer spent running and not paused, up to one tick period, and          *)
(* endTime = startTime + duration.                                         *)
(***************************************************************************)
C30_SingleDurationExcludesPauses ==
    \A i \in DOMAIN singleSink :
        /\ singleSink[i].duration - singleSink[i].ran <= SingleTickPeriod
        /\ singleSink[i].ran - singleSink[i].duration <= SingleTickPeriod
        /\ singleSink[i].endTime = singleSink[i].startTime + singleSink[i].duration

=============================================================================
